---- MODULE Spec2Model ----
(***************************************************************************)
(* Model of the route-optimisation core of the ReportList component        *)
(* (src/types.ts): selection of reports, coordinate resolution, haversine  *)
(* distance and the greedy nearest-neighbour loop of handleOptimizeRoute.  *)
(*                                                                         *)
(* Encoding of JavaScript values:                                          *)
(*   - latitudes/longitudes are integers in units of 1e-4 degree;          *)
(*   - distances are integers in units of 1e-5 km (floor of the IEEE       *)
(*     double the source formula yields), which preserves the order and    *)
(*     the equality of every pair of distances of the table;               *)
(*   - `undefined`, `NaN` and `Infinity` are the sentinels below;          *)
(*   - `T | null` is a sequence of length 0 (null) or 1 (the value);       *)
(*   - a Set<T> is the sequence of its elements in insertion order, which  *)
(*     is the order Set.prototype.forEach and Array.filter observe.        *)
(***************************************************************************)
EXTENDS Integers, Sequences, FiniteSets, TLC

\* Largest number of reports in the reports list (bound of the model).
MaxReports == 3

\* JavaScript `undefined` where a number is expected (a missing lat/lng).
undefined == 99999999
\* JavaScript NaN as a distance; every comparison with it is false.
NaN == -1
\* JavaScript Infinity, the initial value of minDist.
Infinity == 2147483647

null == <<>>

\* constants.ts: the registered cities reports of the model refer to.
CITY_COORDINATES ==
    [Mumbai |-> [lat |-> 190760, lng |-> 728777],
     Delhi  |-> [lat |-> 287041, lng |-> 771025],
     Pune   |-> [lat |-> 185204, lng |-> 738567]]

\* Property names every object literal inherits from Object.prototype:
\* CITY_COORDINATES[name] is then a truthy value without lat and lng.
ObjectPrototypeKeys ==
    {"constructor", "toString", "valueOf", "hasOwnProperty", "__proto__"}

\* The value of the expression CITY_COORDINATES[city] (types.ts line 166):
\* <<>> when it is undefined, else the (lat, lng) read from the object found.
CityLookup(city) ==
    IF city \in DOMAIN CITY_COORDINATES
    THEN <<CITY_COORDINATES[city]>>
    ELSE IF city \in ObjectPrototypeKeys
         THEN <<[lat |-> undefined, lng |-> undefined]>>
         ELSE <<>>

\* Helper to safely get coordinates.
getCoords(r) ==
    IF r.coordinates # null
    THEN [lat |-> r.coordinates[1].latitude, lng |-> r.coordinates[1].longitude]
    ELSE LET cityCoords == CityLookup(r.centerCity)
         IN  IF cityCoords # <<>>
             THEN [lat |-> cityCoords[1].lat, lng |-> cityCoords[1].lng]
             ELSE [lat |-> 0, lng |-> 0]

\* R * c of the haversine formula, evaluated in IEEE doubles for every
\* ordered pair of the coordinates of the model, in units of 1e-5 km.
\* For point A (7.36 N, 0 E) and its antipode (7.36 S, 180 E) the sum `a`
\* rounds to 1 + 2^-52, Math.sqrt(1 - a) is NaN and so is the distance.
Haversine ==
    <<190760, 728777, 190760, 728777>> :> 0 @@            \* Mumbai -> Mumbai
    <<190760, 728777, 185204, 738567>> :> 12015230 @@     \* Mumbai -> Pune
    <<190760, 728777, 287041, 771025>> :> 115324129 @@    \* Mumbai -> Delhi
    <<190760, 728777, 0, 0>> :> 821113556 @@              \* Mumbai -> (0,0)
    <<190760, 728777, 190176, 728562>> :> 687575 @@       \* Mumbai -> GPS fix
    <<190760, 728777, 73600, 0>> :> 794697895 @@          \* Mumbai -> point A
    <<190760, 728777, -73600, 1800000>> :> 1206810784 @@  \* Mumbai -> antipode of A
    <<185204, 738567, 190760, 728777>> :> 12015230 @@     \* Pune -> Mumbai
    <<185204, 738567, 185204, 738567>> :> 0 @@            \* Pune -> Pune
    <<185204, 738567, 287041, 771025>> :> 117948242 @@    \* Pune -> Delhi
    <<185204, 738567, 0, 0>> :> 830779297 @@              \* Pune -> (0,0)
    <<185204, 738567, 190176, 728562>> :> 11896138 @@     \* Pune -> GPS fix
    <<185204, 738567, 73600, 0>> :> 805191596 @@          \* Pune -> point A
    <<185204, 738567, -73600, 1800000>> :> 1196317083 @@  \* Pune -> antipode of A
    <<287041, 771025, 190760, 728777>> :> 115324129 @@    \* Delhi -> Mumbai
    <<287041, 771025, 185204, 738567>> :> 117948242 @@    \* Delhi -> Pune
    <<287041, 771025, 287041, 771025>> :> 0 @@            \* Delhi -> Delhi
    <<287041, 771025, 0, 0>> :> 875213309 @@              \* Delhi -> (0,0)
    <<287041, 771025, 190176, 728562>> :> 116011350 @@    \* Delhi -> GPS fix
    <<287041, 771025, 73600, 0>> :> 836024113 @@          \* Delhi -> point A
    <<287041, 771025, -73600, 1800000>> :> 1165484566 @@  \* Delhi -> antipode of A
    <<0, 0, 190760, 728777>> :> 821113556 @@              \* (0,0) -> Mumbai
    <<0, 0, 185204, 738567>> :> 830779297 @@              \* (0,0) -> Pune
    <<0, 0, 287041, 771025>> :> 875213309 @@              \* (0,0) -> Delhi
    <<0, 0, 0, 0>> :> 0 @@                                \* (0,0) -> (0,0)
    <<0, 0, 190176, 728562>> :> 820823710 @@              \* (0,0) -> GPS fix
    <<0, 0, 73600, 0>> :> 81839466 @@                     \* (0,0) -> point A
    <<0, 0, -73600, 1800000>> :> 1919669213 @@            \* (0,0) -> antipode of A
    <<190176, 728562, 190760, 728777>> :> 687575 @@       \* GPS fix -> Mumbai
    <<190176, 728562, 185204, 738567>> :> 11896138 @@     \* GPS fix -> Pune
    <<190176, 728562, 287041, 771025>> :> 116011350 @@    \* GPS fix -> Delhi
    <<190176, 728562, 0, 0>> :> 820823710 @@              \* GPS fix -> (0,0)
    <<190176, 728562, 190176, 728562>> :> 0 @@            \* GPS fix -> GPS fix
    <<190176, 728562, 73600, 0>> :> 794489631 @@          \* GPS fix -> point A
    <<190176, 728562, -73600, 1800000>> :> 1207019048 @@  \* GPS fix -> antipode of A
    <<73600, 0, 190760, 728777>> :> 794697895 @@          \* point A -> Mumbai
    <<73600, 0, 185204, 738567>> :> 805191596 @@          \* point A -> Pune
    <<73600, 0, 287041, 771025>> :> 836024113 @@          \* point A -> Delhi
    <<73600, 0, 0, 0>> :> 81839466 @@                     \* point A -> (0,0)
    <<73600, 0, 190176, 728562>> :> 794489631 @@          \* point A -> GPS fix
    <<73600, 0, 73600, 0>> :> 0 @@                        \* point A -> point A
    <<73600, 0, -73600, 1800000>> :> NaN @@               \* point A -> antipode of A
    <<-73600, 1800000, 190760, 728777>> :> 1206810784 @@  \* antipode of A -> Mumbai
    <<-73600, 1800000, 185204, 738567>> :> 1196317083 @@  \* antipode of A -> Pune
    <<-73600, 1800000, 287041, 771025>> :> 1165484566 @@  \* antipode of A -> Delhi
    <<-73600, 1800000, 0, 0>> :> 1919669213 @@            \* antipode of A -> (0,0)
    <<-73600, 1800000, 190176, 728562>> :> 1207019048 @@  \* antipode of A -> GPS fix
    <<-73600, 1800000, 73600, 0>> :> NaN @@               \* antipode of A -> point A
    <<-73600, 1800000, -73600, 1800000>> :> 0             \* antipode of A -> antipode of A

\* Distance in units of 1e-5 km; arithmetic on undefined yields NaN.
getDistanceFromLatLonInKm(lat1, lon1, lat2, lon2) ==
    IF undefined \in {lat1, lon1, lat2, lon2}
    THEN NaN
    ELSE Haversine[<<lat1, lon1, lat2, lon2>>]

\* Variant: `dist <= minDist`, which lets a later equidistant candidate win.
DistLessOrEqual(dist, minDist) == dist # NaN /\ dist <= minDist
\* The comparison `dist < minDist` of IEEE doubles (false when dist is NaN;
\* minDist is Infinity or a distance already accepted, never NaN).
DistLess(dist, minDist) == dist # NaN /\ dist < minDist


\* ------------------------------------------------------------------------
\* Reports

\* A precise GPS fix a report may carry (GeoCoordinates).
GPSFix == [latitude |-> 190176, longitude |-> 728562]

\* The (centerCity, coordinates) pairs reports of the model are drawn from:
\* a registered city, a precise fix that overrides the registered city, a
\* region the table does not know, and a region name Object.prototype defines.
Places ==
    { [centerCity |-> "Mumbai",      coordinates |-> null],
      [centerCity |-> "Delhi",       coordinates |-> <<GPSFix>>],
      [centerCity |-> "Atlantis",    coordinates |-> null],
      [centerCity |-> "constructor", coordinates |-> null] }

\* The fields of a Report the routing code reads.
Report(id, place) ==
    [id |-> id, centerCity |-> place.centerCity, coordinates |-> place.coordinates]

\* Reports lists of n reports, newest first: handleSubmit prepends a report
\* whose id is the time of its creation, so ids decrease along the list.
ReportLists(n) ==
    { [i \in 1..n |-> Report(n + 1 - i, f[i])] : f \in [1..n -> Places] }

Range(s) == { s[i] : i \in 1..Len(s) }

RECURSIVE Filter(_, _)
\* Array.prototype.filter with the predicate `keep`, a set of elements.
Filter(s, keep) ==
    IF s = <<>> THEN <<>>
    ELSE IF Head(s) \in keep
         THEN <<Head(s)>> \o Filter(Tail(s), keep)
         ELSE Filter(Tail(s), keep)

\* ------------------------------------------------------------------------
\* State

VARIABLES
    reports,            \* props.reports: the reports list
    selectedReportIds,  \* Set<string>, ids in insertion order
    showRouteModal,     \* boolean
    optimizedRoute,     \* Report[]
    pc,                 \* position inside handleOptimizeRoute
    route,              \* local of handleOptimizeRoute: Report[]
    unvisited,          \* local of handleOptimizeRoute: Set<Report>
    current,            \* local of handleOptimizeRoute: Report (0 or 1)
    op                  \* the handler that ran last

VARIABLES
    userRole,           \* formData.userRole, the userRole prop of ReportList
    activeView,         \* App: 'FORM' | 'DASHBOARD' (ReportList is mounted in DASHBOARD)
    filterStatus,       \* ReportList filters
    filterCity,
    filterSeverity,
    filterWasteType

VARIABLES
    status,             \* App: AppStatus
    aiAnalysis,         \* App: AnalysisResult | null
    formData,           \* App: the fields of the form handleSubmit reads
    analysisCall,       \* the pending call of analyzeWasteImage (0 or 1)
    submitTimer         \* the pending setTimeout of handleSubmit (0 or 1)

routeVars == <<reports, selectedReportIds, showRouteModal, optimizedRoute,
               pc, route, unvisited, current, op>>
uiVars == <<userRole, activeView, filterStatus, filterCity, filterSeverity,
            filterWasteType>>
appVars == <<status, aiAnalysis, formData, analysisCall, submitTimer>>

vars == <<reports, selectedReportIds, showRouteModal, optimizedRoute,
          pc, route, unvisited, current, op, uiVars, appVars>>

\* The initial values of the filters (useState).
FiltersInitial ==
    /\ filterStatus = "ALL"
    /\ filterCity = "ALL"
    /\ filterSeverity = "ALL"
    /\ filterWasteType = "ALL"

\* The initial state of App: an empty form, nothing in flight.
AppInitial ==
    /\ status = "IDLE"
    /\ aiAnalysis = null
    /\ formData = [photoBase64 |-> null, centerCity |-> "", description |-> "",
                   reporterName |-> "", manualWasteType |-> "", coordinates |-> null]
    /\ analysisCall = <<>>
    /\ submitTimer = <<>>

Init ==
    /\ reports \in UNION { ReportLists(n) : n \in 0..MaxReports }
    /\ selectedReportIds = <<>>
    /\ showRouteModal = FALSE
    /\ optimizedRoute = <<>>
    /\ pc = "idle"
    /\ route = <<>>
    /\ unvisited = <<>>
    /\ current = <<>>
    /\ op = "mount"
    /\ userRole = "Volunteer"
    /\ activeView = "DASHBOARD"
    /\ FiltersInitial
    /\ AppInitial

\* ------------------------------------------------------------------------
\* Selection

\* Variant: a change of the selection also discards the route on display.
toggleSelection_clearsRoute(id) ==
    /\ pc = "idle"
    /\ selectedReportIds' =
          IF id \in Range(selectedReportIds)
          THEN Filter(selectedReportIds, Range(selectedReportIds) \ {id})
          ELSE Append(selectedReportIds, id)
    /\ optimizedRoute' = <<>>
    /\ op' = "toggleSelection"
    /\ UNCHANGED <<reports, showRouteModal, pc, route, unvisited, current>>
    /\ UNCHANGED <<uiVars, appVars>>
\* const toggleSelection = (id) => { ... setSelectedReportIds(newSet) }
toggleSelection(id) ==
    /\ pc = "idle"
    /\ selectedReportIds' =
          IF id \in Range(selectedReportIds)
          THEN Filter(selectedReportIds, Range(selectedReportIds) \ {id})
          ELSE Append(selectedReportIds, id)
    /\ op' = "toggleSelection"
    /\ UNCHANGED <<reports, showRouteModal, optimizedRoute, pc, route,
                   unvisited, current>>
    /\ UNCHANGED <<uiVars, appVars>>

\* The close buttons of the route modal.
closeRouteModal ==
    /\ pc = "idle"
    /\ showRouteModal
    /\ showRouteModal' = FALSE
    /\ op' = "closeRouteModal"
    /\ UNCHANGED <<reports, selectedReportIds, optimizedRoute, pc, route,
                   unvisited, current>>
    /\ UNCHANGED <<uiVars, appVars>>

\* ------------------------------------------------------------------------
\* Route optimisation (greedy nearest neighbour)

RECURSIVE MapIds(_, _)
\* The reports found by looking the ids up one by one, in the order of ids.
MapIds(reps, ids) ==
    IF ids = <<>> THEN <<>>
    ELSE Filter(reps, { r \in Range(reps) : r.id = Head(ids) })
         \o MapIds(reps, Tail(ids))

\* Variant: the selected reports in the insertion order of the ids.
selectedReports_inSelectionOrder(reps, ids) == MapIds(reps, ids)
\* reports.filter(r => selectedReportIds.has(r.id))
selectedReports(reps, ids) ==
    Filter(reps, { r \in Range(reps) : r.id \in Range(ids) })

\* Variant: a guard that lets a single report through.
tooFew_lessThanOne(sel) == Len(sel) < 1
\* selectedReports.length < 2
tooFew(sel) == Len(sel) < 2

RECURSIVE forEachCandidate(_, _, _, _)
\* unvisited.forEach(candidate => ...): the value of `nearest` after the
\* callback ran on every element of `unv` in insertion order.
forEachCandidate(c1, unv, nearest, minDist) ==
    IF unv = <<>> THEN nearest
    ELSE LET candidate == Head(unv)
             c2 == getCoords(candidate)
             dist == getDistanceFromLatLonInKm(c1.lat, c1.lng, c2.lat, c2.lng)
         IN  IF DistLess(dist, minDist)
             THEN forEachCandidate(c1, Tail(unv), <<candidate>>, dist)
             ELSE forEachCandidate(c1, Tail(unv), nearest, minDist)

\* Variant: takes the first candidate of the set, whatever its distance.
nearestOf_firstCandidate(cur, unv) == <<Head(unv)>>
\* let nearest = null; let minDist = Infinity; ...forEach...
nearestOf(cur, unv) == forEachCandidate(getCoords(cur), unv, null, Infinity)

\* Variant: route.unshift(nearest).
push_front(rt, r) == <<r>> \o rt
\* route.push(nearest)
push(rt, r) == Append(rt, r)

\* Variant: removes the first candidate instead of the chosen one.
delete_first(unv, r) == Tail(unv)
\* unvisited.delete(nearest)
delete(unv, r) == Filter(unv, Range(unv) \ {r})

\* Lines 171-179: the entry of handleOptimizeRoute up to the loop.
handleOptimizeRoute ==
    /\ pc = "idle"
    /\ op' = "handleOptimizeRoute"
    /\ LET sel == selectedReports(reports, selectedReportIds)
       IN  IF tooFew(sel)
           THEN UNCHANGED <<pc, route, unvisited, current>>
           ELSE /\ route' = <<sel[1]>>
                /\ unvisited' = Tail(sel)
                /\ current' = <<sel[1]>>
                /\ pc' = "loop"
    /\ UNCHANGED <<reports, selectedReportIds, showRouteModal, optimizedRoute>>
    /\ UNCHANGED <<uiVars, appVars>>

\* Lines 181-203: one iteration of the while loop.
whileIteration ==
    /\ pc = "loop"
    /\ Len(unvisited) > 0
    /\ LET nearest == nearestOf(current[1], unvisited)
       IN  IF nearest # null
           THEN /\ route' = push(route, nearest[1])
                /\ unvisited' = delete(unvisited, nearest[1])
                /\ current' = nearest
                /\ pc' = "loop"
           ELSE /\ pc' = "set"          \* break
                /\ UNCHANGED <<route, unvisited, current>>
    /\ UNCHANGED <<reports, selectedReportIds, showRouteModal, optimizedRoute, op>>
    /\ UNCHANGED <<uiVars, appVars>>

\* Line 181: the loop condition is false.
whileExit ==
    /\ pc = "loop"
    /\ Len(unvisited) = 0
    /\ pc' = "set"
    /\ UNCHANGED <<reports, selectedReportIds, showRouteModal, optimizedRoute,
                   route, unvisited, current, op>>
    /\ UNCHANGED <<uiVars, appVars>>

\* Variant: publishing the route also clears the selection.
setOptimizedRoute_clearsSelection ==
    /\ pc = "set"
    /\ optimizedRoute' = route
    /\ showRouteModal' = TRUE
    /\ selectedReportIds' = <<>>
    /\ pc' = "idle"
    /\ route' = <<>>
    /\ unvisited' = <<>>
    /\ current' = <<>>
    /\ UNCHANGED <<reports, op>>
    /\ UNCHANGED <<uiVars, appVars>>
\* Lines 205-206: publish the route and open the modal; the locals die.
setOptimizedRoute ==
    /\ pc = "set"
    /\ optimizedRoute' = route
    /\ showRouteModal' = TRUE
    /\ pc' = "idle"
    /\ route' = <<>>
    /\ unvisited' = <<>>
    /\ current' = <<>>
    /\ UNCHANGED <<reports, selectedReportIds, op>>
    /\ UNCHANGED <<uiVars, appVars>>

Next ==
    \/ \E i \in 1..Len(reports) : toggleSelection(reports[i].id)
    \/ closeRouteModal
    \/ handleOptimizeRoute
    \/ whileIteration
    \/ whileExit
    \/ setOptimizedRoute

Spec == Init /\ [][Next]_vars

TypeOK ==
    /\ Len(reports) <= MaxReports
    /\ pc \in {"idle", "loop", "set"}
    /\ showRouteModal \in BOOLEAN
    /\ Len(current) <= 1

\* ------------------------------------------------------------------------
\* The dashboard: roles, filters, selection and status buttons

\* Largest number of reports on the dashboard (bound of the model).
MaxDashboardReports == 2

\* The kinds of report the dashboard of the model shows: one analysed report
\* of a registered city and one report without analysis of an unknown region.
DashboardKinds ==
    << [centerCity |-> "Mumbai", coordinates |-> null,
        aiAnalysis |-> <<[severity |-> "High", wasteType |-> "Plastic"]>>],
       [centerCity |-> "Atlantis", coordinates |-> null, aiAnalysis |-> null] >>

\* A Report with the fields the dashboard reads.
DashboardReport(id, kind, st) ==
    [id |-> id, centerCity |-> kind.centerCity, coordinates |-> kind.coordinates,
     status |-> st, aiAnalysis |-> kind.aiAnalysis]

\* The reports list of n reports, newest first, every report PENDING as
\* handleSubmit creates it; the kinds alternate along the list.
DashboardReports(n) ==
    [i \in 1..n |-> DashboardReport(n + 1 - i, DashboardKinds[1 + (i % 2)], "PENDING")]

\* The values the model's user picks in the city and severity selects.
CityChoices == {"ALL", "Mumbai"}
SeverityChoices == {"ALL", "High"}

\* uniqueWasteTypes: the waste types of the analysed reports.
uniqueWasteTypes(reps) ==
    { r.aiAnalysis[1].wasteType : r \in { x \in Range(reps) : x.aiAnalysis # null } }

\* The options of the status select for a role.
StatusOptions(role) ==
    IF role = "Admin" THEN {"ALL", "PENDING", "VERIFIED", "COLLECTED", "REJECTED"}
    ELSE IF role = "Volunteer" THEN {"VERIFIED", "COLLECTED", "ALL"}
    ELSE {"ALL", "PENDING", "VERIFIED", "COLLECTED"}

\* r.aiAnalysis?.severity, with "" for undefined.
severityOf(r) == IF r.aiAnalysis # null THEN r.aiAnalysis[1].severity ELSE ""
\* r.aiAnalysis?.wasteType || 'Unspecified'
wasteTypeOf(r) == IF r.aiAnalysis # null THEN r.aiAnalysis[1].wasteType ELSE "Unspecified"

\* Variant: the filter without the restriction of the Volunteer role.
isVisible_noRoleCheck(r, role, fStatus, fCity, fSeverity, fWasteType) ==
    /\ fStatus = "ALL" \/ r.status = fStatus
    /\ fCity = "ALL" \/ r.centerCity = fCity
    /\ fSeverity = "ALL" \/ severityOf(r) = fSeverity
    /\ fWasteType = "ALL" \/ wasteTypeOf(r) = fWasteType
\* The predicate of the filter of visibleReports.
isVisible(r, role, fStatus, fCity, fSeverity, fWasteType) ==
    /\ role = "Volunteer" => r.status \in {"VERIFIED", "COLLECTED"}
    /\ fStatus = "ALL" \/ r.status = fStatus
    /\ fCity = "ALL" \/ r.centerCity = fCity
    /\ fSeverity = "ALL" \/ severityOf(r) = fSeverity
    /\ fWasteType = "ALL" \/ wasteTypeOf(r) = fWasteType

\* const visibleReports = reports.filter(...)
visibleReports ==
    Filter(reports, { r \in Range(reports) :
                        isVisible(r, userRole, filterStatus, filterCity,
                                  filterSeverity, filterWasteType) })

\* The ids of a sequence of reports, in order (.map(r => r.id)).
idsOf(reps) == [i \in 1..Len(reps) |-> reps[i].id]

\* if (status === AppStatus.SUCCESS && aiAnalysis): App returns the success
\* view instead of the header, the dashboard and the form.
SuccessView == status = "SUCCESS" /\ aiAnalysis # null

\* ReportList is rendered and no handler is running.
DashboardIdle == activeView = "DASHBOARD" /\ ~SuccessView /\ pc = "idle"

\* Variant: the checkbox is offered for every visible report.
canSelect_any(r) == userRole = "Volunteer"
\* const canSelect = userRole === 'Volunteer' && report.status === VERIFIED
canSelect(r) == userRole = "Volunteer" /\ r.status = "VERIFIED"

\* The selection checkbox of a report card.
clickCheckbox ==
    /\ DashboardIdle
    /\ \E i \in 1..Len(visibleReports) :
          /\ canSelect(visibleReports[i])
          /\ toggleSelection(visibleReports[i].id)

\* toggleSelectAll, behind the Select All button (Volunteer, status filter
\* VERIFIED).
toggleSelectAll ==
    /\ DashboardIdle
    /\ userRole = "Volunteer"
    /\ filterStatus = "VERIFIED"
    /\ selectedReportIds' =
          IF Len(selectedReportIds) = Len(visibleReports)
          THEN <<>>
          ELSE idsOf(Filter(visibleReports,
                            { r \in Range(visibleReports) : r.status = "VERIFIED" }))
    /\ op' = "toggleSelectAll"
    /\ UNCHANGED <<reports, showRouteModal, optimizedRoute, pc, route,
                   unvisited, current>>
    /\ UNCHANGED <<uiVars, appVars>>

\* Variant: the button is shown from one selected report on.
generateRouteVisible_fromOne == userRole = "Volunteer" /\ Len(selectedReportIds) >= 1
\* userRole === 'Volunteer' && selectedReportIds.size >= 2
generateRouteVisible == userRole = "Volunteer" /\ Len(selectedReportIds) >= 2

\* The Generate Route button.
clickGenerateRoute ==
    /\ DashboardIdle
    /\ generateRouteVisible
    /\ handleOptimizeRoute

\* The close buttons of the modal, on the dashboard.
clickCloseRoute ==
    /\ DashboardIdle
    /\ closeRouteModal

\* Variant: the map without the test of the id.
mapStatus_everyReport(prev, id, newStatus) ==
    [i \in 1..Len(prev) |-> [prev[i] EXCEPT !.status = newStatus]]
\* prev.map(r => r.id === id ? { ...r, status: newStatus } : r)
mapStatus(prev, id, newStatus) ==
    [i \in 1..Len(prev) |->
        IF prev[i].id = id
        THEN [prev[i] EXCEPT !.status = newStatus]
        ELSE prev[i]]

\* App.handleUpdateStatus: setReports(prev => prev.map(...)).
handleUpdateStatus(id, newStatus) ==
    reports' = mapStatus(reports, id, newStatus)

\* The status buttons of a report card: Reject and Verify & Assign for an
\* Admin on a PENDING report, Mark As Collected for a Volunteer on a
\* VERIFIED report.
clickStatusButton ==
    /\ DashboardIdle
    /\ \E i \in 1..Len(visibleReports) :
          LET report == visibleReports[i]
          IN  \/ /\ userRole = "Admin"
                 /\ report.status = "PENDING"
                 /\ \E st \in {"REJECTED", "VERIFIED"} :
                       handleUpdateStatus(report.id, st)
              \/ /\ userRole = "Volunteer"
                 /\ report.status = "VERIFIED"
                 /\ handleUpdateStatus(report.id, "COLLECTED")
    /\ op' = "onUpdateStatus"
    /\ UNCHANGED <<selectedReportIds, showRouteModal, optimizedRoute, pc, route,
                   unvisited, current>>
    /\ UNCHANGED <<uiVars, appVars>>

\* The four filter selects.
changeFilter ==
    /\ DashboardIdle
    /\ \/ /\ \E v \in StatusOptions(userRole) : filterStatus' = v
          /\ UNCHANGED <<filterCity, filterSeverity, filterWasteType>>
       \/ /\ \E v \in CityChoices : filterCity' = v
          /\ UNCHANGED <<filterStatus, filterSeverity, filterWasteType>>
       \/ /\ \E v \in SeverityChoices : filterSeverity' = v
          /\ UNCHANGED <<filterStatus, filterCity, filterWasteType>>
       \/ /\ \E v \in {"ALL"} \cup uniqueWasteTypes(reports) : filterWasteType' = v
          /\ UNCHANGED <<filterStatus, filterCity, filterSeverity>>
    /\ op' = "setFilter"
    /\ UNCHANGED <<reports, selectedReportIds, showRouteModal, optimizedRoute,
                   pc, route, unvisited, current, userRole, activeView>>
    /\ UNCHANGED appVars

\* Variant: the effect forgets to clear the selection.
roleReset_keepsSelection(role) ==
    /\ filterStatus' = IF role = "Volunteer" THEN "VERIFIED" ELSE "ALL"
    /\ selectedReportIds' = selectedReportIds
    /\ showRouteModal' = FALSE
\* The effect of ReportList on [userRole] ("Reset state when role changes").
roleReset(role) ==
    /\ filterStatus' = IF role = "Volunteer" THEN "VERIFIED" ELSE "ALL"
    /\ selectedReportIds' = <<>>
    /\ showRouteModal' = FALSE

\* The role switcher of App (handleInputChange('userRole', role)) together
\* with the effects the change triggers: App shows the dashboard for Admin
\* and Volunteer and the form for Citizen; ReportList runs its reset effect,
\* starts from its initial state when it is mounted, and loses its state
\* when it is unmounted.
setUserRole(role) ==
    /\ pc = "idle"
    /\ ~SuccessView
    /\ role # userRole
    /\ userRole' = role
    /\ activeView' = IF role \in {"Admin", "Volunteer"} THEN "DASHBOARD" ELSE "FORM"
    /\ roleReset(role)
    /\ IF activeView = "DASHBOARD" /\ role \in {"Admin", "Volunteer"}
       THEN UNCHANGED <<optimizedRoute, filterCity, filterSeverity, filterWasteType>>
       ELSE /\ optimizedRoute' = <<>>
            /\ filterCity' = "ALL"
            /\ filterSeverity' = "ALL"
            /\ filterWasteType' = "ALL"
    /\ op' = "setUserRole"
    /\ UNCHANGED <<reports, pc, route, unvisited, current>>
    /\ UNCHANGED appVars

InitDashboard ==
    /\ reports \in { DashboardReports(n) : n \in 0..MaxDashboardReports }
    /\ selectedReportIds = <<>>
    /\ showRouteModal = FALSE
    /\ optimizedRoute = <<>>
    /\ pc = "idle"
    /\ route = <<>>
    /\ unvisited = <<>>
    /\ current = <<>>
    /\ op = "mount"
    /\ userRole = "Citizen"
    /\ activeView = "FORM"
    /\ FiltersInitial
    /\ AppInitial

NextDashboard ==
    \/ \E role \in {"Citizen", "Admin", "Volunteer"} : setUserRole(role)
    \/ changeFilter
    \/ clickCheckbox
    \/ toggleSelectAll
    \/ clickStatusButton
    \/ clickGenerateRoute
    \/ whileIteration
    \/ whileExit
    \/ setOptimizedRoute
    \/ clickCloseRoute

SpecDashboard == InitDashboard /\ [][NextDashboard]_vars

\* ------------------------------------------------------------------------
\* Vocabulary of the properties

NoDuplicates(s) == \A i, j \in 1..Len(s) : s[i] = s[j] => i = j

IsPermutationOf(s, t) ==
    /\ Len(s) = Len(t)
    /\ Range(s) = Range(t)
    /\ NoDuplicates(s)

IsPrefixOf(s, t) ==
    /\ Len(s) <= Len(t)
    /\ \A i \in 1..Len(s) : s[i] = t[i]

\* The distance the loop computes between two reports.
distBetween(a, b) ==
    getDistanceFromLatLonInKm(getCoords(a).lat, getCoords(a).lng,
                              getCoords(b).lat, getCoords(b).lng)

\* `x <= y` on IEEE doubles: false when either side is NaN.
NumLeq(x, y) == x # NaN /\ y # NaN /\ x <= y

\* The reports the selection matches, as a set.
Selected == { r \in Range(reports) : r.id \in Range(selectedReportIds) }

\* A transition of the loop that appends a stop to the route.
AppendsStop == pc = "loop" /\ Len(route') = Len(route) + 1

InRun == pc \in {"loop", "set"}

\* ------------------------------------------------------------------------
\* Properties

\* C1: for every selection of at least 2 reports the route handed to
\* setOptimizedRoute is a permutation of the selected reports (same
\* cardinality, same membership, no duplicate, no omission).
C1_RouteIsPermutation ==
    pc = "set" => IsPermutationOf(route, selectedReports(reports, selectedReportIds))

\* C2: at every greedy step the appended stop is an unvisited candidate
\* whose distance from the current stop is less than or equal to the
\* distance from the current stop to every other unvisited candidate, and
\* it becomes the new current.
C2_StepAppendsNearest ==
    [][AppendsStop =>
         LET x == route'[Len(route')]
         IN  /\ x \in Range(unvisited)
             /\ \A y \in Range(unvisited) \ {x} :
                   NumLeq(distBetween(current[1], x), distBetween(current[1], y))
             /\ current' = <<x>>]_vars

\* C3 as stated: the first stop is the selected report whose id was
\* inserted earliest into selectedReportIds.
C3_FirstStopIsEarliestInserted ==
    InRun => route[1].id = selectedReportIds[1]

\* C3 amended: the first stop is the selected report that comes first in
\* the reports list (the order reports.filter keeps), whatever the order in
\* which the ids were inserted into selectedReportIds.
C3_FirstStopIsFirstInReports ==
    InRun =>
       \E i \in 1..Len(reports) :
          /\ reports[i].id \in Range(selectedReportIds)
          /\ \A j \in 1..(i - 1) : reports[j].id \notin Range(selectedReportIds)
          /\ route[1] = reports[i]

\* A run whose first stop is not the report selected first.
C3_Witness ==
    /\ pc = "set"
    /\ Len(selectedReportIds) >= 2
    /\ route[1].id # selectedReportIds[1]

\* C4: when several unvisited candidates are at the same minimal distance
\* from the current stop, the stop appended is the one that comes first in
\* the iteration order of the unvisited set.
C4_TieKeepsFirstEvaluated ==
    [][AppendsStop =>
         LET x == route'[Len(route')]
             d(k) == distBetween(current[1], unvisited[k])
             minimal == { k \in 1..Len(unvisited) :
                            /\ d(k) # NaN
                            /\ \A l \in 1..Len(unvisited) : d(l) # NaN => d(k) <= d(l) }
         IN  Cardinality(minimal) >= 2 =>
                \E k \in minimal : /\ \A l \in minimal : k <= l
                                   /\ x = unvisited[k]]_vars

\* A tie was resolved by the last step: a candidate still unvisited is as
\* far from the previous stop as the stop that was appended.
C4_Witness ==
    /\ pc = "loop"
    /\ Len(route) >= 2
    /\ \E y \in Range(unvisited) :
          /\ distBetween(route[Len(route) - 1], y) # NaN
          /\ distBetween(route[Len(route) - 1], y)
               = distBetween(route[Len(route) - 1], route[Len(route)])

\* C5: for every selection of n >= 2 reports the loop ends after exactly
\* n-1 nearest-neighbour steps with the unvisited set empty; it never
\* leaves through the `break`.
C5_LoopRunsToEmpty ==
    pc = "set" =>
       /\ unvisited = <<>>
       /\ Len(route) - 1 = Len(selectedReports(reports, selectedReportIds)) - 1

\* C7: every greedy step removes exactly one report from the unvisited
\* set, a report that was not yet in the route, and at every point of the
\* run the route and the unvisited set are disjoint and together equal the
\* selected reports.
C7_NoStopRevisited ==
    [][/\ AppendsStop =>
            LET x == route'[Len(route')]
            IN  /\ x \in Range(unvisited)
                /\ x \notin Range(route)
                /\ Range(unvisited') = Range(unvisited) \ {x}
                /\ Len(unvisited') = Len(unvisited) - 1
       /\ (pc' \in {"loop", "set"}) =>
            /\ Range(route') \cap Range(unvisited') = {}
            /\ Range(route') \cup Range(unvisited') = Selected'
            /\ NoDuplicates(route')
            /\ NoDuplicates(unvisited')]_vars

\* A greedy step has been taken and candidates remain.
C7_Witness ==
    /\ pc = "loop"
    /\ Len(route) >= 2
    /\ Len(unvisited) >= 1

\* C8: no backtracking: the route built so far is a prefix of the route
\* after the next step, and the route published is the route built.
C8_NoBacktracking ==
    [][/\ pc = "loop" => IsPrefixOf(route, route')
       /\ pc = "set" => optimizedRoute' = route]_vars

\* A route of three stops has been built by two steps.
C8_Witness ==
    /\ pc = "set"
    /\ Len(route) = 3

\* C9: when fewer than 2 reports match the selection, handleOptimizeRoute
\* is a no-op: the loop is not entered and optimizedRoute and
\* showRouteModal keep their values.
C9_TooFewIsNoOp ==
    [][(/\ pc = "idle"
        /\ op' = "handleOptimizeRoute"
        /\ Cardinality(Selected) < 2)
       => /\ pc' = "idle"
          /\ optimizedRoute' = optimizedRoute
          /\ showRouteModal' = showRouteModal
          /\ <<route', unvisited', current'>> = <<route, unvisited, current>>]_vars

\* handleOptimizeRoute returned early while an earlier route is on display.
C9_Witness ==
    /\ op = "handleOptimizeRoute"
    /\ pc = "idle"
    /\ Cardinality(Selected) < 2
    /\ showRouteModal
    /\ Len(optimizedRoute) >= 2

\* C10: getCoords is total and follows the priority order: the precise
\* coordinates if the report has them, else the entry of centerCity if it
\* is a key of CITY_COORDINATES, else (0, 0); no coordinate is missing.
C10_GetCoordsPriority ==
    \A i \in 1..Len(reports) :
       LET r == reports[i]
           c == getCoords(r)
       IN  /\ c.lat # undefined
           /\ c.lng # undefined
           /\ c = IF r.coordinates # null
                  THEN [lat |-> r.coordinates[1].latitude,
                        lng |-> r.coordinates[1].longitude]
                  ELSE IF r.centerCity \in DOMAIN CITY_COORDINATES
                       THEN CITY_COORDINATES[r.centerCity]
                       ELSE [lat |-> 0, lng |-> 0]

\* ------------------------------------------------------------------------
\* Claims about the dashboard (SpecDashboard)

\* A step that calls handleOptimizeRoute: only that handler writes its name
\* to op, and the steps inside it start from pc # "idle".
CallsHandleOptimizeRoute == pc = "idle" /\ op' = "handleOptimizeRoute"

\* C11: handleOptimizeRoute is called only from the Generate Route button,
\* which exists only for a Volunteer with at least two selected ids.
C11_GenerateRouteOnlyForVolunteerWithTwo ==
    [][CallsHandleOptimizeRoute =>
         userRole = "Volunteer" /\ Len(selectedReportIds) >= 2]_vars

\* A Volunteer with two selected reports pressed Generate Route.
C11_Witness ==
    /\ activeView = "DASHBOARD"
    /\ pc = "loop"
    /\ userRole = "Volunteer"
    /\ Len(selectedReportIds) >= 2

isOrigin_upToOne(index) == index <= 1
\* index === 0 ? (origin colours) : (waypoint colours); index counts from 0.
isOrigin(index) == index = 0

\* const nextNode = optimizedRoute[idx + 1]: <<>> when it is undefined.
nextNodeOf(rt, idx) == IF idx + 2 <= Len(rt) THEN <<rt[idx + 2]>> ELSE <<>>

\* The element optimizedRoute.map renders for (node, idx) in the list.
routeListItem(rt, idx) ==
    LET node == rt[idx + 1]
        nextNode == nextNodeOf(rt, idx)
        distToNext ==
            IF nextNode # <<>>
            THEN LET c1 == getCoords(node)
                     c2 == getCoords(nextNode[1])
                 IN  getDistanceFromLatLonInKm(c1.lat, c1.lng, c2.lat, c2.lng)
            ELSE 0
    IN  [key |-> node.id, node |-> node, number |-> idx + 1,
         origin |-> isOrigin(idx), showsLeg |-> nextNode # <<>>,
         distToNext |-> distToNext]

\* The list side of the modal.
routeList(rt) == [i \in 1..Len(rt) |-> routeListItem(rt, i - 1)]

\* The markers optimizedRoute.forEach adds to the map, and latLngs.
routeMarkers(rt) ==
    [i \in 1..Len(rt) |->
        LET coords == getCoords(rt[i])
        IN  [latLng |-> <<coords.lat, coords.lng>>, origin |-> isOrigin(i - 1),
             number |-> i, node |-> rt[i]]]

\* The polyline: drawn through latLngs when there is more than one.
routePolyline(rt) ==
    IF Len(rt) > 1 THEN [i \in 1..Len(rt) |-> routeMarkers(rt)[i].latLng] ELSE <<>>

\* A position the map can take (setView, L.marker): a pair of numbers.
isLatLng(ll) == ll[1] # undefined /\ ll[2] # undefined

\* The map effect runs to its end: the view is centred on the first stop
\* and every marker is placed (nothing to do for an empty route).
routeMapDrawn(rt) ==
    \A i \in 1..Len(rt) : isLatLng(routeMarkers(rt)[i].latLng)

\* The number of legs the list shows.
legsShown(rt) == Cardinality({ i \in 1..Len(rt) : routeList(rt)[i].showsLeg })

\* The structure of the list of the modal for a route rt.
ItineraryShape(rt) ==
    LET list == routeList(rt)
    IN  /\ Len(list) = Len(rt)
        /\ \A i \in 1..Len(rt) :
              /\ list[i].node = rt[i]
              /\ list[i].showsLeg <=> i < Len(rt)
              /\ list[i].showsLeg => list[i].distToNext = distBetween(rt[i], rt[i + 1])
        /\ legsShown(rt) = IF Len(rt) = 0 THEN 0 ELSE Len(rt) - 1

ItineraryShapeOfRoute == ItineraryShape(optimizedRoute)

\* C14: only index 0 of the route is rendered as the origin, on the map and
\* in the list; every later index is a numbered waypoint, in route order.
C14_OnlyFirstIsOrigin ==
    LET list == routeList(optimizedRoute)
        markers == routeMarkers(optimizedRoute)
    IN  \A i \in 1..Len(optimizedRoute) :
           /\ list[i].origin <=> i = 1
           /\ markers[i].origin <=> i = 1
           /\ list[i].number = i /\ markers[i].number = i
           /\ list[i].node = optimizedRoute[i]
           /\ markers[i].node = optimizedRoute[i]

\* A route of three stops is on display.
C14_Witness ==
    /\ showRouteModal
    /\ pc = "idle"
    /\ Len(optimizedRoute) = 3

\* ------------------------------------------------------------------------
\* The scenario of three cities (SpecScenario)

\* The three reports of the scenario, by registered city; Mumbai is the
\* first of the list and so the start, the other two come in either order.
ScenarioReports ==
    { << Report(3, [centerCity |-> "Mumbai", coordinates |-> null]),
         Report(2, [centerCity |-> second,   coordinates |-> null]),
         Report(1, [centerCity |-> third,    coordinates |-> null]) >> :
      <<second, third>> \in { <<"Pune", "Delhi">>, <<"Delhi", "Pune">> } }

InitScenario ==
    /\ reports \in ScenarioReports
    /\ selectedReportIds = <<>>
    /\ showRouteModal = FALSE
    /\ optimizedRoute = <<>>
    /\ pc = "idle"
    /\ route = <<>>
    /\ unvisited = <<>>
    /\ current = <<>>
    /\ op = "mount"
    /\ userRole = "Volunteer"
    /\ activeView = "DASHBOARD"
    /\ FiltersInitial
    /\ AppInitial

SpecScenario == InitScenario /\ [][Next]_vars

\* The centerCity of every stop of a route, in order.
citiesOf(rt) == [i \in 1..Len(rt) |-> rt[i].centerCity]

\* C15: with Mumbai, Pune and Delhi selected and Mumbai the start, the
\* route handleOptimizeRoute builds is Mumbai, Pune, Delhi, with 2 legs.
C15_MumbaiPuneDelhi ==
    pc = "set" /\ Len(selectedReportIds) = 3 =>
        /\ citiesOf(route) = <<"Mumbai", "Pune", "Delhi">>
        /\ legsShown(route) = 2

\* The run ended for the list in which Delhi comes before Pune.
C15_Witness ==
    /\ pc = "set"
    /\ Len(selectedReportIds) = 3
    /\ citiesOf(reports) = <<"Mumbai", "Delhi", "Pune">>

\* C16: handleOptimizeRoute changes nothing but the route view: the reports
\* list with every field and status, selectedReportIds, the filters and the
\* role are unchanged by each of its steps; its working set (route,
\* unvisited) is built anew from reports and the selection at every call and
\* dropped at its end, and the route published by an earlier call is not
\* touched before the new one replaces it.
C16_HandleOptimizeRouteFrame ==
    [][(CallsHandleOptimizeRoute \/ pc # "idle") =>
         /\ reports' = reports
         /\ selectedReportIds' = selectedReportIds
         /\ uiVars' = uiVars
         /\ appVars' = appVars
         /\ pc # "set" => optimizedRoute' = optimizedRoute
                          /\ showRouteModal' = showRouteModal
         /\ pc = "set" => optimizedRoute' = route /\ route' = <<>>
                          /\ unvisited' = <<>>
         /\ CallsHandleOptimizeRoute /\ pc' = "loop" =>
               LET sel == selectedReports(reports, selectedReportIds)
               IN  route' = <<sel[1]>> /\ unvisited' = Tail(sel)]_vars

\* A second call is running while the route of an earlier call is in state
\* and a filter is set.
C16_Witness ==
    /\ activeView = "DASHBOARD"
    /\ pc = "loop"
    /\ optimizedRoute # <<>>
    /\ filterCity = "Mumbai"

\* ------------------------------------------------------------------------
\* The report form of App and the image analysis (SpecApp)

\* Largest number of reports submitted in a behaviour (bound of the model).
MaxSubmitted == 2

\* The fields of AnalysisResult the program reads back.
\* The record the catch block of analyzeWasteImage returns.
FallbackAnalysis ==
    [isWaste |-> TRUE, severity |-> "Medium", wasteType |-> "Unidentified",
     confidenceScore |-> 0]

\* JSON.parse on the response texts of the model: <<v>> for the value v,
\* <<>> when it throws a SyntaxError.
JSONParse(text) ==
    IF text = "{\"isWaste\":true,\"severity\":\"High\",\"wasteType\":\"Plastic\",\"confidenceScore\":1}"
    THEN <<[isWaste |-> TRUE, severity |-> "High", wasteType |-> "Plastic",
            confidenceScore |-> 1]>>
    ELSE <<>>

\* What ai.models.generateContent can do: throw (reject), or return a
\* response whose text is undefined, empty, not JSON, or JSON.
Responses ==
    { [throws |-> TRUE,  text |-> <<>>],
      [throws |-> FALSE, text |-> <<>>],
      [throws |-> FALSE, text |-> <<"">>],
      [throws |-> FALSE, text |-> <<"I cannot analyse this image">>],
      [throws |-> FALSE,
       text |-> <<"{\"isWaste\":true,\"severity\":\"High\",\"wasteType\":\"Plastic\",\"confidenceScore\":1}">>] }

\* !text
noText(response) == response.text = <<>> \/ response.text = <<"">>

\* The way a response ends the try block, as a name.
outcomeOf(response) ==
    IF response.throws THEN "throws"
    ELSE IF noText(response) THEN "noText"
    ELSE IF JSONParse(response.text[1]) = <<>> THEN "unparsable"
    ELSE "parsed"

\* Variant: the function without its try/catch; a failure rejects.
analyzeWasteImage_noCatch(response) ==
    IF outcomeOf(response) = "parsed"
    THEN [rejected |-> FALSE, value |-> JSONParse(response.text[1])]
    ELSE [rejected |-> TRUE, value |-> <<>>]
\* analyzeWasteImage, given what the external call does: the settled promise.
analyzeWasteImage(response) ==
    IF response.throws THEN [rejected |-> FALSE, value |-> <<FallbackAnalysis>>]
    ELSE IF noText(response) THEN [rejected |-> FALSE, value |-> <<FallbackAnalysis>>]
    ELSE IF JSONParse(response.text[1]) = <<>>
         THEN [rejected |-> FALSE, value |-> <<FallbackAnalysis>>]
         ELSE [rejected |-> FALSE, value |-> JSONParse(response.text[1])]

\* String.prototype.trim on the texts of the model.
trim(s) == IF s = " " THEN "" ELSE s

\* The values the model's user enters in the form.
FieldChoices ==
    [photoBase64     |-> {null, <<"data:image/jpeg;base64,AAAA">>},
     centerCity      |-> {"", "Mumbai"},
     description     |-> {"", " ", "Garbage pile"},
     reporterName    |-> {"", " ", "Asha"},
     manualWasteType |-> {"", "Plastic"},
     coordinates     |-> {null}]

\* The form is on screen: the Citizen view, not replaced by the success view.
FormShown == activeView = "FORM" /\ ~SuccessView

\* handleInputChange(field, value) and the photo capture.
handleInputChange ==
    /\ FormShown
    /\ \E field \in DOMAIN FieldChoices : \E value \in FieldChoices[field] :
          /\ formData[field] # value
          /\ formData' = [formData EXCEPT ![field] = value]
    /\ op' = "handleInputChange"
    /\ UNCHANGED <<reports, selectedReportIds, showRouteModal, optimizedRoute,
                   pc, route, unvisited, current>>
    /\ UNCHANGED <<uiVars, status, aiAnalysis, analysisCall, submitTimer>>

\* Variant: the checks without trim().
formValid_noTrim(fd) ==
    /\ fd.photoBase64 # null
    /\ fd.centerCity # ""
    /\ fd.description # ""
    /\ fd.reporterName # ""
\* The four checks at the head of handleSubmit.
formValid(fd) ==
    /\ fd.photoBase64 # null
    /\ fd.centerCity # ""
    /\ trim(fd.description) # ""
    /\ trim(fd.reporterName) # ""

\* const descriptionContext = ...
descriptionContext(fd) ==
    IF fd.manualWasteType # ""
    THEN <<"[User Selected Type: ", fd.manualWasteType, "] ", fd.description>>
    ELSE <<fd.description>>

\* handleSubmit up to the await: validation, ANALYZING, the call. The submit
\* button is disabled while a submission is in progress.
handleSubmit ==
    /\ FormShown
    /\ status \notin {"ANALYZING", "SUBMITTING"}
    /\ Len(reports) < MaxSubmitted
    /\ op' = "handleSubmit"
    /\ IF formValid(formData)
       THEN /\ status' = "ANALYZING"
            /\ analysisCall' = <<[base64Image |-> formData.photoBase64[1],
                                  description |-> descriptionContext(formData),
                                  formData |-> formData]>>
       ELSE UNCHANGED <<status, analysisCall>>
    /\ UNCHANGED <<reports, selectedReportIds, showRouteModal, optimizedRoute,
                   pc, route, unvisited, current>>
    /\ UNCHANGED <<uiVars, aiAnalysis, formData, submitTimer>>

\* The await of handleSubmit ends: the promise of analyzeWasteImage settled.
\* A rejection would end handleSubmit there; otherwise it stores the
\* analysis, sets SUBMITTING and starts the timer.
analysisSettles ==
    /\ pc = "idle"
    /\ analysisCall # <<>>
    /\ \E response \in Responses :
          LET promise == analyzeWasteImage(response)
          IN  /\ op' = outcomeOf(response)
              /\ analysisCall' = <<>>
              /\ IF promise.rejected
                 THEN UNCHANGED <<aiAnalysis, status, submitTimer>>
                 ELSE /\ aiAnalysis' = promise.value
                      /\ status' = "SUBMITTING"
                      /\ submitTimer' = <<[formData |-> analysisCall[1].formData,
                                           analysis |-> promise.value]>>
    /\ UNCHANGED <<reports, selectedReportIds, showRouteModal, optimizedRoute,
                   pc, route, unvisited, current>>
    /\ UNCHANGED <<uiVars, formData>>

\* Variant: the report is created already verified.
newReport_startsVerified(fd, analysis, id) ==
    [id |-> id, centerCity |-> fd.centerCity, coordinates |-> fd.coordinates,
     description |-> fd.description, reporterName |-> fd.reporterName,
     manualWasteType |-> fd.manualWasteType, status |-> "VERIFIED",
     aiAnalysis |-> analysis]
\* The report the timer callback builds; ids are creation times, which
\* grow with every submission.
newReport(fd, analysis, id) ==
    [id |-> id, centerCity |-> fd.centerCity, coordinates |-> fd.coordinates,
     description |-> fd.description, reporterName |-> fd.reporterName,
     manualWasteType |-> fd.manualWasteType, status |-> "PENDING",
     aiAnalysis |-> analysis]

\* The setTimeout callback of handleSubmit, 1500 ms later. The success view
\* replaces the dashboard if it is shown: ReportList is unmounted and starts
\* again from its initial state and its role effect when it comes back.
submitTimerFires ==
    /\ pc = "idle"
    /\ submitTimer # <<>>
    /\ reports' = <<newReport(submitTimer[1].formData, submitTimer[1].analysis,
                              Len(reports) + 1)>> \o reports
    /\ status' = "SUCCESS"
    /\ submitTimer' = <<>>
    /\ op' = "setTimeout"
    /\ IF activeView = "DASHBOARD"
       THEN /\ roleReset(userRole)
            /\ optimizedRoute' = <<>>
            /\ filterCity' = "ALL"
            /\ filterSeverity' = "ALL"
            /\ filterWasteType' = "ALL"
       ELSE UNCHANGED <<selectedReportIds, showRouteModal, optimizedRoute,
                        filterStatus, filterCity, filterSeverity, filterWasteType>>
    /\ UNCHANGED <<pc, route, unvisited, current, userRole, activeView>>
    /\ UNCHANGED <<aiAnalysis, formData, analysisCall>>

\* resetForm, behind the button of the success view.
resetForm ==
    /\ status = "SUCCESS" /\ aiAnalysis # null
    /\ formData' = [formData EXCEPT !.centerCity = "", !.manualWasteType = "",
                                    !.coordinates = null, !.photoBase64 = null,
                                    !.description = ""]
    /\ status' = "IDLE"
    /\ aiAnalysis' = null
    /\ op' = "resetForm"
    /\ UNCHANGED <<reports, selectedReportIds, showRouteModal, optimizedRoute,
                   pc, route, unvisited, current>>
    /\ UNCHANGED <<uiVars, analysisCall, submitTimer>>

InitApp ==
    /\ reports = <<>>
    /\ selectedReportIds = <<>>
    /\ showRouteModal = FALSE
    /\ optimizedRoute = <<>>
    /\ pc = "idle"
    /\ route = <<>>
    /\ unvisited = <<>>
    /\ current = <<>>
    /\ op = "mount"
    /\ userRole = "Citizen"
    /\ activeView = "FORM"
    /\ FiltersInitial
    /\ AppInitial

NextApp ==
    \/ handleInputChange
    \/ handleSubmit
    \/ analysisSettles
    \/ submitTimerFires
    \/ resetForm

SpecApp == InitApp /\ [][NextApp]_vars

\* The outcomes of the external call the claim names as failures.
FailureOutcomes == {"throws", "noText", "unparsable"}

\* C17: analyzeWasteImage never rejects: when the external call throws,
\* returns no text or returns text that does not parse, it resolves with
\* the fallback record, so the step that ends the await of handleSubmit
\* always takes status from ANALYZING to SUBMITTING with an analysis stored.
C17_AnalysisNeverFails ==
    [][analysisCall # <<>> /\ analysisCall' = <<>> =>
         /\ status = "ANALYZING"
         /\ status' = "SUBMITTING"
         /\ aiAnalysis' # null
         /\ op' \in FailureOutcomes => aiAnalysis' = <<FallbackAnalysis>>]_vars

\* The external call threw and handleSubmit went on with the fallback.
C17_Witness ==
    /\ op = "throws"
    /\ status = "SUBMITTING"
    /\ aiAnalysis = <<FallbackAnalysis>>
    /\ submitTimer # <<>>

\* ------------------------------------------------------------------------
\* The distance function on coordinate pairs (SpecDistance)

\* The coordinates the distance is taken between: the registered cities,
\* (0, 0), a GPS fix, and a point with its antipode.
CoordinatePairs ==
    { [latitude |-> CITY_COORDINATES[city].lat,
       longitude |-> CITY_COORDINATES[city].lng] : city \in DOMAIN CITY_COORDINATES }
    \cup { [latitude |-> 0, longitude |-> 0], GPSFix,
           [latitude |-> 73600, longitude |-> 0],
           [latitude |-> -73600, longitude |-> 1800000] }

\* Two reports with precise coordinates a and b.
InitDistance ==
    /\ reports \in
          { << Report(2, [centerCity |-> "Mumbai", coordinates |-> <<a>>]),
               Report(1, [centerCity |-> "Mumbai", coordinates |-> <<b>>]) >> :
            a \in CoordinatePairs, b \in CoordinatePairs }
    /\ selectedReportIds = <<>>
    /\ showRouteModal = FALSE
    /\ optimizedRoute = <<>>
    /\ pc = "idle"
    /\ route = <<>>
    /\ unvisited = <<>>
    /\ current = <<>>
    /\ op = "mount"
    /\ userRole = "Volunteer"
    /\ activeView = "DASHBOARD"
    /\ FiltersInitial
    /\ AppInitial

SpecDistance == InitDistance /\ [][Next]_vars

\* C18: for all coordinate pairs a, b the distance is a number >= 0, the
\* distance from a to a is 0, and the distance from a to b equals the
\* distance from b to a (in units of 1e-5 km a tolerance of 1e-6 km leaves
\* no room: the values must be equal).
C18_DistanceNonNegativeSymmetric ==
    \A i, j \in 1..Len(reports) :
       LET a == getCoords(reports[i])
           b == getCoords(reports[j])
           dab == getDistanceFromLatLonInKm(a.lat, a.lng, b.lat, b.lng)
           dba == getDistanceFromLatLonInKm(b.lat, b.lng, a.lat, a.lng)
           daa == getDistanceFromLatLonInKm(a.lat, a.lng, a.lat, a.lng)
       IN  /\ dab # NaN /\ dab >= 0
           /\ daa = 0
           /\ dab = dba

\* The same three properties for every pair whose distance is a number.
DistanceSymmetricWhereDefined ==
    \A i, j \in 1..Len(reports) :
       LET a == getCoords(reports[i])
           b == getCoords(reports[j])
           dab == getDistanceFromLatLonInKm(a.lat, a.lng, b.lat, b.lng)
           dba == getDistanceFromLatLonInKm(b.lat, b.lng, a.lat, a.lng)
           daa == getDistanceFromLatLonInKm(a.lat, a.lng, a.lat, a.lng)
       IN  /\ daa = 0
           /\ dab = dba
           /\ dab # NaN => dab >= 0

\* ------------------------------------------------------------------------
\* Claims about selection and roles (SpecDashboard)

\* C19: every id in selectedReportIds is the id of a report whose status is
\* VERIFIED, in every reachable state, so every route contains only
\* VERIFIED reports.
C19_SelectedAreVerified ==
    /\ \A id \in Range(selectedReportIds) :
          \E r \in Range(reports) : r.id = id /\ r.status = "VERIFIED"
    /\ pc # "idle" =>
          \A r \in Range(route) \cup Range(unvisited) : r.status = "VERIFIED"

\* A step that changes the role.
RoleChanges == userRole' # userRole

\* C20: whenever userRole changes, selectedReportIds becomes empty, the
\* route modal is closed, and filterStatus becomes VERIFIED for a Volunteer
\* and ALL otherwise.
C20_RoleChangeResets ==
    [][RoleChanges =>
         /\ selectedReportIds' = <<>>
         /\ showRouteModal' = FALSE
         /\ filterStatus' = IF userRole' = "Volunteer" THEN "VERIFIED" ELSE "ALL"]_vars

\* The role was changed while a selection existed and the modal was open:
\* the state right after the change from Volunteer to Admin.
C20_Witness ==
    /\ op = "setUserRole"
    /\ userRole = "Admin"
    /\ optimizedRoute # <<>>
    /\ selectedReportIds = <<>>
    /\ ~showRouteModal

\* ------------------------------------------------------------------------
\* Claims about visibility, selection and status (SpecDashboard)

\* const rows = visibleReports.map(r => [...]) of handleExportCSV, with the
\* columns the model's reports have.
exportRows ==
    [i \in 1..Len(visibleReports) |->
        LET r == visibleReports[i]
        IN  <<r.id, r.centerCity, r.status,
              IF r.aiAnalysis # null THEN r.aiAnalysis[1].wasteType ELSE "N/A",
              IF r.aiAnalysis # null THEN r.aiAnalysis[1].severity ELSE "N/A">>]

\* The reports whose card offers the selection checkbox.
selectableReports ==
    Filter(visibleReports, { r \in Range(visibleReports) : canSelect(r) })

\* Every value a filter select can hold, for any role.
AllStatusFilters == {"ALL", "PENDING", "VERIFIED", "COLLECTED", "REJECTED"}

\* C21: for a Volunteer, whatever the filters, every visible report is
\* VERIFIED or COLLECTED; no PENDING or REJECTED report is shown, offered
\* for selection or written to the CSV export.
C21_VolunteerSeesVerifiedOrCollected ==
    /\ \A r \in Range(reports) :
          \A fStatus \in AllStatusFilters, fCity \in CityChoices,
             fSeverity \in SeverityChoices,
             fWasteType \in {"ALL"} \cup uniqueWasteTypes(reports) :
             isVisible(r, "Volunteer", fStatus, fCity, fSeverity, fWasteType)
                => r.status \in {"VERIFIED", "COLLECTED"}
    /\ userRole = "Volunteer" /\ activeView = "DASHBOARD" =>
          /\ \A r \in Range(visibleReports) : r.status \in {"VERIFIED", "COLLECTED"}
          /\ \A r \in Range(selectableReports) : r.status = "VERIFIED"
          /\ \A i \in 1..Len(exportRows) : exportRows[i][3] \in {"VERIFIED", "COLLECTED"}
          /\ Len(exportRows) = Len(visibleReports)

\* A Volunteer looks at a list with every status filter off while a report
\* that is not for volunteers exists next to one that is.
C21_Witness ==
    /\ userRole = "Volunteer"
    /\ activeView = "DASHBOARD"
    /\ filterStatus = "ALL"
    /\ \E r \in Range(reports) : r.status \in {"PENDING", "REJECTED"}
    /\ visibleReports # <<>>

\* ------------------------------------------------------------------------
\* The route as a function of the reports list and the selection

RECURSIVE greedyFrom(_, _, _)
\* The while loop of handleOptimizeRoute run to its end from (rt, unv, cur).
greedyFrom(rt, unv, cur) ==
    IF unv = <<>> THEN rt
    ELSE LET nearest == nearestOf(cur, unv)
         IN  IF nearest # null
             THEN greedyFrom(push(rt, nearest[1]), delete(unv, nearest[1]),
                             nearest[1])
             ELSE rt

\* The route handleOptimizeRoute publishes for a reports list and a Set of
\* ids given in insertion order; <<>> when it returns early.
routeFor(reps, ids) ==
    LET sel == selectedReports(reps, ids)
    IN  IF tooFew(sel) THEN <<>>
        ELSE greedyFrom(<<sel[1]>>, Tail(sel), sel[1])

\* Every insertion order of the ids of a Set.
insertionOrders(ids) ==
    { p \in [1..Len(ids) -> Range(ids)] : Range(p) = Range(ids) }

\* C22: the first stop is the selected report that is earliest in the
\* reports list, and the route is the same for every order in which the
\* same ids could have been toggled into the selection.  routeFor reads
\* the ids only through selectedReports, so the route is the same for every
\* order exactly when the list handed to the loop is.
C22_RouteIndependentOfToggleOrder ==
    pc = "set" =>
       LET sel == selectedReports(reports, selectedReportIds)
       IN  /\ route[1] = sel[1]
           /\ routeFor(reports, selectedReportIds) = route
           /\ \A p \in insertionOrders(selectedReportIds) :
                 selectedReports(reports, p) = sel

\* A run ended for three ids that were toggled in an order that is not the
\* order of the reports list.
C22_Witness ==
    /\ pc = "set"
    /\ Len(selectedReportIds) = 3
    /\ selectedReportIds # idsOf(reports)
    /\ Len(route) = 3

\* Every selected id is the id of a report of the list, and the guard of
\* the Generate Route button agrees with the guard of the handler.
SelectedIdsAreReportIds ==
    /\ \A id \in Range(selectedReportIds) : \E r \in Range(reports) : r.id = id
    /\ Len(selectedReportIds) >= 2
          <=> ~tooFew(selectedReports(reports, selectedReportIds))

\* C23: every selected id is the id of a report of the list, so with at
\* least 2 selected ids handleOptimizeRoute does not return early and
\* publishes a route whose length is the size of the selection.
C23_RouteLengthIsSelectionSize ==
    /\ SelectedIdsAreReportIds
    /\ pc = "set" => Len(route) = Len(selectedReportIds)
    /\ showRouteModal /\ op = "handleOptimizeRoute" /\ pc = "idle"
          /\ Len(selectedReportIds) >= 2
          => Len(optimizedRoute) = Len(selectedReportIds)

\* The ids of the visible reports that are VERIFIED.
visibleVerifiedIds ==
    { r.id : r \in { x \in Range(visibleReports) : x.status = "VERIFIED" } }

\* A step of toggleSelectAll (only that handler writes its name to op).
CallsToggleSelectAll == pc = "idle" /\ op' = "toggleSelectAll"

\* C24: toggleSelectAll clears the selection exactly when every visible
\* VERIFIED report is already selected, and otherwise makes the selection
\* the set of the ids of the visible VERIFIED reports, also when ids of
\* reports hidden by a filter are selected.
C24_SelectAllTogglesVisibleVerified ==
    [][CallsToggleSelectAll =>
         IF visibleVerifiedIds \subseteq Range(selectedReportIds)
         THEN selectedReportIds' = <<>>
         ELSE Range(selectedReportIds') = visibleVerifiedIds]_vars

\* The same for the states in which no selected id is hidden or stale.
SelectAllWithoutHiddenIds ==
    [][CallsToggleSelectAll /\ Range(selectedReportIds) \subseteq visibleVerifiedIds =>
         IF visibleVerifiedIds \subseteq Range(selectedReportIds)
         THEN selectedReportIds' = <<>>
         ELSE Range(selectedReportIds') = visibleVerifiedIds]_vars

\* ------------------------------------------------------------------------
\* The life of a report: submitted through the form, then handled on the
\* dashboard (SpecLifecycle)

\* A form that passes the checks of handleSubmit.
FilledForm ==
    [photoBase64 |-> <<"data:image/jpeg;base64,AAAA">>, centerCity |-> "Mumbai",
     description |-> "Garbage pile", reporterName |-> "Asha",
     manualWasteType |-> "", coordinates |-> null]

\* A Citizen has filled in the form; earlier reports may exist.
InitLifecycle ==
    /\ reports \in { DashboardReports(n) : n \in 0..(MaxDashboardReports - 1) }
    /\ selectedReportIds = <<>>
    /\ showRouteModal = FALSE
    /\ optimizedRoute = <<>>
    /\ pc = "idle"
    /\ route = <<>>
    /\ unvisited = <<>>
    /\ current = <<>>
    /\ op = "mount"
    /\ userRole = "Citizen"
    /\ activeView = "FORM"
    /\ FiltersInitial
    /\ status = "IDLE"
    /\ aiAnalysis = null
    /\ formData = FilledForm
    /\ analysisCall = <<>>
    /\ submitTimer = <<>>

NextLifecycle ==
    \/ handleSubmit
    \/ analysisSettles
    \/ submitTimerFires
    \/ resetForm
    \/ NextDashboard

SpecLifecycle == InitLifecycle /\ [][NextLifecycle]_vars

\* The changes of status the buttons of a role make.
statusStep(old, new, role) ==
    \/ new = old
    \/ role = "Admin" /\ old = "PENDING" /\ new \in {"VERIFIED", "REJECTED"}
    \/ role = "Volunteer" /\ old = "VERIFIED" /\ new = "COLLECTED"

\* C25: a report's status changes only from PENDING to VERIFIED or REJECTED
\* (Admin) and from VERIFIED to COLLECTED (Volunteer); a new report starts
\* PENDING; REJECTED and COLLECTED reports keep their status.
C25_StatusLifecycle ==
    [][\/ /\ Len(reports') = Len(reports)
          /\ \A i \in 1..Len(reports) :
                /\ reports'[i].id = reports[i].id
                /\ statusStep(reports[i].status, reports'[i].status, userRole)
       \/ /\ Len(reports') = Len(reports) + 1
          /\ reports'[1].status = "PENDING"
          /\ Tail(reports') = reports]_vars

\* A report submitted through the form was verified and collected, and
\* another report was rejected.
C25_Witness ==
    /\ \E r \in Range(reports) :
          r.status = "COLLECTED" /\ "description" \in DOMAIN r
    /\ \E r \in Range(reports) : r.status = "REJECTED"

\* The ids handleUpdateStatus is tried with: those of the list and one,
\* 0, that no report has.
UpdateIds == { r.id : r \in Range(reports) } \cup {0}

\* What handleUpdateStatus(id, s) would do to the reports of the state.
UpdateStatusFrame ==
    \A id \in UpdateIds, s \in {"PENDING", "VERIFIED", "COLLECTED", "REJECTED"} :
       LET out == mapStatus(reports, id, s)
       IN  /\ Len(out) = Len(reports)
           /\ \A i \in 1..Len(reports) :
                 IF reports[i].id = id
                 THEN /\ DOMAIN out[i] = DOMAIN reports[i]
                      /\ out[i].status = s
                      /\ \A f \in DOMAIN reports[i] \ {"status"} :
                            out[i][f] = reports[i][f]
                 ELSE out[i] = reports[i]
           /\ (\A r \in Range(reports) : r.id # id) => out = reports

\* C26: handleUpdateStatus(id, s) changes only the status of the reports
\* whose id is id: the length and the order of the list, the other fields
\* of a matching report and every other report stay; with an id no report
\* has, the list stays as it is. A press of a status button changes the
\* reports list in exactly this way.
C26_UpdateStatusFrame ==
    /\ []UpdateStatusFrame
    /\ [][pc = "idle" /\ op' = "onUpdateStatus" =>
            \E i \in 1..Len(reports) :
               reports' = mapStatus(reports, reports[i].id, reports'[i].status)]_vars

\* A status button was pressed in a list that holds a submitted report and
\* an earlier one, with different statuses.
C26_Witness ==
    /\ op = "onUpdateStatus"
    /\ Len(reports) >= 2
    /\ \E r \in Range(reports) : "description" \in DOMAIN r
    /\ \E r \in Range(reports) : r.status = "PENDING"
    /\ \E r \in Range(reports) : r.status = "VERIFIED"

\* ------------------------------------------------------------------------
\* Claims about the form (SpecApp)

\* A text that is empty or only whitespace.
isBlank(text) == text \in {"", " "}

\* A step of handleSubmit (only that handler writes its name to op).
CallsHandleSubmit == op' = "handleSubmit"

\* C27: handleSubmit called without a photo, without a city, with a blank
\* description or with a blank reporter name rejects the submission:
\* analyzeWasteImage is not called, status stays as it was and is not
\* ANALYZING, and the reports list is unchanged.
C27_InvalidSubmissionRejected ==
    [][CallsHandleSubmit /\ (\/ formData.photoBase64 = null
                             \/ formData.centerCity = ""
                             \/ isBlank(formData.description)
                             \/ isBlank(formData.reporterName)) =>
         /\ analysisCall' = <<>>
         /\ status' = status /\ status' # "ANALYZING"
         /\ aiAnalysis' = aiAnalysis
         /\ submitTimer' = submitTimer
         /\ reports' = reports]_vars

\* handleSubmit has just refused a form whose only flaw is a description of
\* whitespace.
C27_Witness ==
    /\ op = "handleSubmit"
    /\ status = "IDLE"
    /\ analysisCall = <<>>
    /\ formData.photoBase64 # null
    /\ formData.centerCity = "Mumbai"
    /\ formData.description = " "
    /\ formData.reporterName = "Asha"

====
